---- MODULE Spec2Model ----
(***************************************************************************)
(* Model of codegen/generate.go: GenerateFiles turns one endpoint          *)
(* descriptor (framework.OASPathItem) into a generated code file and a     *)
(* generated doc file.                                                     *)
(*                                                                         *)
(* Strings are sequences of one-character strings.  Schemas live in a heap *)
(* (a sequence of records) and are referred to by index, 0 being the nil   *)
(* pointer, because the code shares and mutates them through pointers.     *)
(***************************************************************************)
EXTENDS Integers, Sequences, FiniteSets, TLC

VARIABLES
    vaultPath,     \* the endpoint path given to GenerateFiles
    fileType,      \* the FileType given to GenerateFiles
    pathItem,      \* *framework.OASPathItem (Parameters, Post, Get, Delete)
    heap,          \* the OASSchema objects, by reference
    pc,            \* position inside GenerateFiles / generateFile
    artifact,      \* "code" while generateCode runs, "doc" while generateDoc runs
    pathToFile,    \* generateFile's pathToFile
    files,         \* output files that exist on disk, with their state
    deferred,      \* the deferred calls of the running generateFile, next first
    trace,         \* resource operations of the running generateFile, in order
    retval,        \* the value the running generateFile returns
    tmplFriendly,  \* the *templateFriendly of the running parseTemplate
    extractions,   \* how often appendPostParamsToTopLevel has run on pathItem
    result         \* what GenerateFiles returned

vars == <<vaultPath, fileType, pathItem, heap, pc, artifact, pathToFile, files,
          deferred, trace, retval, tmplFriendly, extractions, result>>

----------------------------------------------------------------------------
(* Bounds of the model. *)

\* longest enumerated endpoint path
MaxPathLen == 3
\* largest descriptor: its top-level parameters plus the size of its request body
MaxDecls == 2

----------------------------------------------------------------------------
(* Strings. *)

LowerLetters == <<"a","b","c","d","e","f","g","h","i","j","k","l","m",
                  "n","o","p","q","r","s","t","u","v","w","x","y","z">>
UpperLetters == <<"A","B","C","D","E","F","G","H","I","J","K","L","M",
                  "N","O","P","Q","R","S","T","U","V","W","X","Y","Z">>
Digits == <<"0","1","2","3","4","5","6","7","8","9">>

\* the characters in byte order, as Go compares strings
Ascii == <<"-", ".", "/">> \o Digits \o UpperLetters \o <<"_">> \o LowerLetters \o <<"{", "}">>

Code(c) == CHOOSE i \in 1..Len(Ascii) : Ascii[i] = c

IsLower(c) == \E i \in 1..26 : LowerLetters[i] = c
IsUpper(c) == \E i \in 1..26 : UpperLetters[i] = c
IsDigit(c) == \E i \in 1..10 : Digits[i] = c

\* unicode.ToLower / unicode.ToUpper on one character
ToLowerChar(c) == IF IsUpper(c) THEN LowerLetters[CHOOSE i \in 1..26 : UpperLetters[i] = c] ELSE c
ToUpperChar(c) == IF IsLower(c) THEN UpperLetters[CHOOSE i \in 1..26 : LowerLetters[i] = c] ELSE c

\* strings.ToLower
ToLower(s) == [i \in 1..Len(s) |-> ToLowerChar(s[i])]

\* strings.isSeparator: letters, digits and underscore are not separators,
\* every other ASCII character is
IsSeparator(c) == ~(IsLower(c) \/ IsUpper(c) \/ IsDigit(c) \/ c = "_")

\* strings.Title: the first letter of every word is mapped to title case; a word
\* starts at the beginning and after every separator
Title(s) == [i \in 1..Len(s) |->
               IF i = 1 \/ IsSeparator(s[i-1]) THEN ToUpperChar(s[i]) ELSE s[i]]

\* strings.Replace(s, old, new, -1) for a one-character old
RECURSIVE Replace(_, _, _)
Replace(s, old, new) ==
    IF s = <<>> THEN <<>>
    ELSE (IF Head(s) = old THEN new ELSE <<Head(s)>>) \o Replace(Tail(s), old, new)

\* strings.HasPrefix(s, c) for a one-character prefix
HasPrefix(s, c) == Len(s) >= 1 /\ s[1] = c

\* strings.LastIndex(s, c) + 1 for a one-character c: 0 when c does not occur
LastIndex(s, c) ==
    IF \E i \in 1..Len(s) : s[i] = c
    THEN CHOOSE i \in 1..Len(s) : s[i] = c /\ \A j \in (i+1)..Len(s) : s[j] # c
    ELSE 0

\* strings.Split(s, "/"): the fields between the separators, empty ones included
RECURSIVE Split(_, _)
Split(s, c) ==
    IF ~(\E i \in 1..Len(s) : s[i] = c) THEN <<s>>
    ELSE LET i == CHOOSE k \in 1..Len(s) : s[k] = c /\ \A j \in 1..(k-1) : s[j] # c
         IN  <<SubSeq(s, 1, i-1)>> \o Split(SubSeq(s, i+1, Len(s)), c)

\* s < t on Go strings: bytewise lexicographic
RECURSIVE StrLess(_, _)
StrLess(s, t) ==
    IF t = <<>> THEN FALSE
    ELSE IF s = <<>> THEN TRUE
    ELSE IF Code(Head(s)) # Code(Head(t)) THEN Code(Head(s)) < Code(Head(t))
    ELSE StrLess(Tail(s), Tail(t))

----------------------------------------------------------------------------
(* Path mapping and naming. *)

\* stripCurlyBraces gone wrong: only the opening brace is removed
stripCurlyBracesOpenOnly(path) == Replace(path, "{", <<>>)

\* lines 239-243
stripCurlyBraces(path) == Replace(Replace(path, "{", <<>>), "}", <<>>)


\* replaceSlashesWithDashes gone wrong: the leading slash is not trimmed
replaceSlashesKeepLeading(s) == Replace(s, "/", <<"-">>)

\* lines 229-234
replaceSlashesWithDashes(s) ==
    Replace(IF HasPrefix(s, "/") THEN Tail(s) ELSE s, "/", <<"-">>)

\* the process-wide base directory, computed once at start-up
pathToHomeDir == <<"/","r">>

\* FileType.String(), declared outside this file
FileTypeString(ft) ==
    CASE ft = "FileTypeDataSource" -> <<"d","s">>
      [] ft = "FileTypeResource"   -> <<"r","s">>
      [] ft = "FileTypeDoc"        -> <<"d","o","c">>

GeneratedDir == <<"/","g","e","n","e","r","a","t","e","d","/">>
DocsDir == <<"/","w","e","b","s","i","t","e","/","d","o","c","s","/","g","e","n","e","r","a","t","e","d","/">>

\* generateCode's pathToFile
CodePathToFile(ft, path) ==
    stripCurlyBraces(pathToHomeDir \o GeneratedDir \o FileTypeString(ft) \o path \o <<".","g","o">>)

\* generateDoc's pathToFile
DocPathToFile(ft, path) ==
    stripCurlyBraces(pathToHomeDir \o DocsDir \o FileTypeString(ft) \o <<"/">>
                     \o replaceSlashesWithDashes(path) \o <<".","m","d">>)

\* generateFile's parentDir
ParentDir(file) == SubSeq(file, 1, LastIndex(file, "/") - 1)

\* Prefix gone wrong: the underscores stay
PrefixKeepUnderscore(path) ==
    LET pathFields == Split(path, "/")
    IN  stripCurlyBraces(pathFields[Len(pathFields)])

\* lines 128-136: toTemplateFriendly's prefix, before the case variants are derived
Prefix(path) ==
    LET pathFields == Split(path, "/")
        prefix == IF Len(pathFields) > 1 THEN pathFields[Len(pathFields)] ELSE pathFields[1]
    IN  Replace(stripCurlyBraces(prefix), "_", <<>>)

----------------------------------------------------------------------------
(* The endpoint descriptor. *)

NIL == 0

\* &framework.OASSchema{} and the values of its fields the code reads or writes;
\* Items is the Type of the element schema, "" when there is none
EmptySchema == [Type |-> "", Items |-> "", Description |-> "", DisplayAttrs |-> "nil"]

\* the schemas the caller built; parameters and properties refer to them by index
InputHeap ==
    << [Type |-> "string", Items |-> "",        Description |-> "d1", DisplayAttrs |-> "nil"],
       [Type |-> "object", Items |-> "",        Description |-> "d2", DisplayAttrs |-> "{}"],
       [Type |-> "array",  Items |-> "integer", Description |-> "d3", DisplayAttrs |-> "{sensitive}"] >>

Refs == {NIL} \cup (1..Len(InputHeap))

Names == { <<"a">>, <<"a","b">>, <<"B">> }

MediaTypes == {"application/json", "text/plain"}

NoProperties == [n \in {} |-> NIL]
NoContent == [m \in {} |-> NIL]

TopParams == [Name : Names, Description : {"top"}, In : {"path"}, Schema : Refs]

\* top-level parameter lists of length n; the names are unique because the
\* list originated from a map keyed by name
TopLists(n) ==
    {s \in [1..n -> TopParams] : \A i, j \in 1..n : i # j => s[i].Name # s[j].Name}

PropertyMaps(n) ==
    UNION {[S -> Refs] : S \in {T \in SUBSET Names : Cardinality(T) <= n}}

MediaTypeObjects(n) ==
    {[SchemaIsNil |-> TRUE,  PropertiesIsNil |-> TRUE, Properties |-> NoProperties],
     [SchemaIsNil |-> FALSE, PropertiesIsNil |-> TRUE, Properties |-> NoProperties]}
    \cup {[SchemaIsNil |-> FALSE, PropertiesIsNil |-> FALSE, Properties |-> p] :
            p \in PropertyMaps(n)}

RECURSIVE SumOver(_, _)
SumOver(f, S) ==
    IF S = {} THEN 0
    ELSE LET x == CHOOSE y \in S : TRUE IN f[x] + SumOver(f, S \ {x})

\* the size of a request body: its properties, a media type without
\* properties counting as one
ContentSize(content) ==
    SumOver([m \in DOMAIN content |->
                IF DOMAIN content[m].Properties = {} THEN 1
                ELSE Cardinality(DOMAIN content[m].Properties)],
            DOMAIN content)

Contents(n) ==
    {c \in UNION {[M -> MediaTypeObjects(n)] : M \in SUBSET MediaTypes} :
        ContentSize(c) <= n}

NilPost == [IsNil |-> TRUE, RequestBodyIsNil |-> TRUE, ContentIsNil |-> TRUE, Content |-> NoContent]

Posts(n) ==
    {NilPost,
     [IsNil |-> FALSE, RequestBodyIsNil |-> TRUE,  ContentIsNil |-> TRUE, Content |-> NoContent],
     [IsNil |-> FALSE, RequestBodyIsNil |-> FALSE, ContentIsNil |-> TRUE, Content |-> NoContent]}
    \cup {[IsNil |-> FALSE, RequestBodyIsNil |-> FALSE, ContentIsNil |-> FALSE, Content |-> c] :
            c \in Contents(n)}

\* the descriptor with these parameters and this POST operation; it has a GET
\* and no DELETE operation
PathItem(ps, po) ==
    [Parameters |-> ps, Post |-> po, GetIsNil |-> FALSE, DeleteIsNil |-> TRUE]

\* the orders in which a Go map with key set S can be ranged over
Orders(S) ==
    {s \in [1..Cardinality(S) -> S] : \A i, j \in 1..Cardinality(S) : i # j => s[i] # s[j]}

\* the orders in which the property maps of the media types in M can be ranged over
RECURSIVE PropertyOrders(_, _)
PropertyOrders(content, M) ==
    IF M = {} THEN {[m \in {} |-> <<>>]}
    ELSE LET m == CHOOSE x \in M : TRUE
         IN  {[x \in M |-> IF x = m THEN o ELSE rest[x]] :
                rest \in PropertyOrders(content, M \ {m}),
                o \in Orders(DOMAIN content[m].Properties)}

\* one choice of iteration order for every map appendPostParamsToTopLevel ranges over
MapOrders(item) ==
    {[media |-> mo, props |-> po] :
        mo \in Orders(DOMAIN item.Post.Content),
        po \in PropertyOrders(item.Post.Content, DOMAIN item.Post.Content)}

----------------------------------------------------------------------------
(* appendPostParamsToTopLevel. *)

\* lines 184-196, one iteration.  param is a copy of the slice element, so the
\* schema it is given when it has none is lost; display attributes are set
\* through the schema pointer and stay
NormalizeTopParam(h, param) ==
    IF param.Schema = NIL THEN h
    ELSE IF h[param.Schema].DisplayAttrs = "nil"
         THEN [h EXCEPT ![param.Schema].DisplayAttrs = "{}"]
         ELSE h

RECURSIVE NormalizeTopLevel(_, _)
NormalizeTopLevel(h, params) ==
    IF params = <<>> THEN h
    ELSE NormalizeTopLevel(NormalizeTopParam(h, Head(params)), Tail(params))

ParamNames(params) == {params[i].Name : i \in 1..Len(params)}

\* lines 208-222: the parameter made of one property; st is [Parameters, heap, unique]
NewParameter(st, properties, propertyName) ==
    LET given == properties[propertyName]
        h1 == IF given = NIL THEN Append(st.heap, EmptySchema) ELSE st.heap
        schema == IF given = NIL THEN Len(h1) ELSE given
        h2 == IF h1[schema].DisplayAttrs = "nil"
              THEN [h1 EXCEPT ![schema].DisplayAttrs = "{}"] ELSE h1
    IN  [Parameters |-> Append(st.Parameters,
                               [Name |-> propertyName, Description |-> h2[schema].Description,
                                In |-> "post", Schema |-> schema]),
         heap |-> h2,
         unique |-> st.unique \cup {propertyName}]

\* AddProperty gone wrong: the names seen are not checked; the property
\* replaces the parameter of its name
AddPropertyNoDedup(st, properties, propertyName) ==
    NewParameter(st, properties, propertyName)

AddPropertyOverwrite(st, properties, propertyName) ==
    LET added == NewParameter([st EXCEPT !.Parameters = <<>>], properties, propertyName)
    IN  IF propertyName \in st.unique
        THEN [added EXCEPT !.Parameters =
                 [i \in 1..Len(st.Parameters) |->
                    IF st.Parameters[i].Name = propertyName
                    THEN added.Parameters[1] ELSE st.Parameters[i]]]
        ELSE NewParameter(st, properties, propertyName)

\* lines 204-223, one iteration
AddProperty(st, properties, propertyName) ==
    IF propertyName \in st.unique THEN st
    ELSE NewParameter(st, properties, propertyName)

RECURSIVE AddProperties(_, _, _)
AddProperties(st, properties, order) ==
    IF order = <<>> THEN st
    ELSE AddProperties(AddProperty(st, properties, Head(order)), properties, Tail(order))

\* lines 197-224: the media types in the order `media`, the properties of media
\* type m in the order props[m]
RECURSIVE AddMediaTypes(_, _, _, _)
AddMediaTypes(st, content, media, props) ==
    IF media = <<>> THEN st
    ELSE LET mediaTypeObject == content[Head(media)]
             next == IF mediaTypeObject.SchemaIsNil \/ mediaTypeObject.PropertiesIsNil
                     THEN st
                     ELSE AddProperties(st, mediaTypeObject.Properties, props[Head(media)])
         IN  AddMediaTypes(next, content, Tail(media), props)

\* the descriptor and the heap after appendPostParamsToTopLevel(pathItem), the
\* maps being ranged over in the orders ord
appendPostParamsToTopLevel(item, h, ord) ==
    IF item.Post.IsNil \/ item.Post.RequestBodyIsNil \/ item.Post.ContentIsNil
    THEN [pathItem |-> item, heap |-> h]
    ELSE LET st == AddMediaTypes([Parameters |-> item.Parameters,
                                  heap |-> NormalizeTopLevel(h, item.Parameters),
                                  unique |-> ParamNames(item.Parameters)],
                                 item.Post.Content, ord.media, ord.props)
         IN  [pathItem |-> [item EXCEPT !.Parameters = st.Parameters], heap |-> st.heap]

----------------------------------------------------------------------------
(* toTemplateFriendly. *)

supportedParamTypes == {"array", "boolean", "integer", "string"}

\* the first parameter the validation loop (lines 144-149) stops at, 0 when it
\* runs to the end: one without a schema (param.Schema.Type dereferences nil)
\* or one of an unsupported type
Offends(h, param) ==
    param.Schema = NIL \/ h[param.Schema].Type \notin supportedParamTypes

FirstOffender(h, params) ==
    IF \E i \in 1..Len(params) : Offends(h, params[i])
    THEN CHOOSE i \in 1..Len(params) :
            Offends(h, params[i]) /\ \A j \in 1..(i-1) : ~Offends(h, params[j])
    ELSE 0

\* sort.Slice with less(i, j) = Parameters[i].Name < Parameters[j].Name; for
\* slices this short the library sorts by insertion
RECURSIVE InsertParam(_, _)
InsertParam(sorted, param) ==
    IF sorted = <<>> THEN <<param>>
    ELSE LET last == sorted[Len(sorted)]
         IN  IF StrLess(param.Name, last.Name)
             THEN Append(InsertParam(SubSeq(sorted, 1, Len(sorted) - 1), param), last)
             ELSE Append(sorted, param)

RECURSIVE InsertionSort(_, _)
InsertionSort(sorted, rest) ==
    IF rest = <<>> THEN sorted
    ELSE InsertionSort(InsertParam(sorted, Head(rest)), Tail(rest))

\* SortByName gone wrong: the parameters stay in the order of the merge
Unsorted(params) == params

\* lines 153-155
SortByName(params) == InsertionSort(<<>>, params)

ErrUnsupported == "ErrUnsupported"

\* lines 156-165: the *templateFriendly built from a validated descriptor
ExportedFuncPrefix(path) == Title(ToLower(Prefix(path)))
PrivateFuncPrefix(path) == ToLower(Prefix(path))

DirName(parentDir) == SubSeq(parentDir, LastIndex(parentDir, "/") + 1, Len(parentDir))

TemplateFriendly(path, parentDir, item) ==
    [Endpoint           |-> path,
     DirName            |-> DirName(parentDir),
     ExportedFuncPrefix |-> ExportedFuncPrefix(path),
     PrivateFuncPrefix  |-> PrivateFuncPrefix(path),
     Parameters         |-> item.Parameters,
     SupportsRead       |-> ~item.GetIsNil,
     SupportsWrite      |-> ~item.Post.IsNil,
     SupportsDelete     |-> ~item.DeleteIsNil]

----------------------------------------------------------------------------
(* generateFile's deferred calls and its return value. *)

\* PushDefer gone wrong: the deferred calls run in the order of their registration
PushDeferFifo(stack, call) == Append(stack, call)

\* defer: the call registered last runs first
PushDefer(stack, call) == <<call>> \o stack

\* ReturnAfterDeferred gone wrong: a failing Flush or Close becomes the error returned
EscalatedReturn(ret, ok) == IF ok THEN ret ELSE "release error"

\* what a deferred Flush or Close does to the value being returned: the result
\* is unnamed and a failure is only logged (lines 77-87)
ReturnAfterDeferred(ret, ok) == ret

\* the output file: Create truncates it, a successful Flush hands it what
\* Execute put into the buffer
EmptyFile == "empty"

Flushed(tr) ==
    IF \E i \in 1..Len(tr) : tr[i] = "execute" THEN "written"
    ELSE IF \E i \in 1..Len(tr) : tr[i] = "execute failed" THEN "partial"
    ELSE EmptyFile

----------------------------------------------------------------------------
(* Initial states. *)

Alphabet == {"/", "{", "}", "_", "-", "a", "B"}

BoundedPaths == UNION {[1..n -> Alphabet] : n \in 0..MaxPathLen}

\* the endpoint paths of the documentation
TransformName == <<"/","t","r","a","n","s","f","o","r","m","/","{","n","a","m","e","}">>
TransformTransformationName ==
    <<"/","t","r","a","n","s","f","o","r","m","/",
      "t","r","a","n","s","f","o","r","m","a","t","i","o","n","/","{","n","a","m","e","}">>

NoFiles == [f \in {} |-> EmptyFile]

InitCall ==
    /\ heap = InputHeap
    /\ pc = "start"
    /\ artifact = "none"
    /\ pathToFile = <<>>
    /\ files = NoFiles
    /\ deferred = <<>>
    /\ trace = <<>>
    /\ retval = "none"
    /\ tmplFriendly = <<>>
    /\ extractions = 0
    /\ result = "running"

\* GenerateFiles on every descriptor of size at most MaxDecls
Init ==
    /\ vaultPath = TransformName
    /\ fileType = "FileTypeResource"
    /\ \E t \in 0..MaxDecls : \E po \in Posts(MaxDecls - t) : \E ps \in TopLists(t) :
          pathItem = PathItem(ps, po)
    /\ InitCall

\* GenerateFiles on every endpoint path of at most MaxPathLen characters
InitPaths ==
    /\ vaultPath \in BoundedPaths
                     \cup {TransformName, TransformTransformationName, <<"/","a","-","B","_">>}
    /\ fileType \in {"FileTypeResource", "FileTypeDataSource"}
    /\ pathItem = PathItem(<<>>, NilPost)
    /\ InitCall

----------------------------------------------------------------------------
(* The steps of GenerateFiles. *)

\* lines 44-45 and 55-57: GenerateFiles enters generateCode, which enters generateFile
StartCode ==
    /\ pc = "start"
    /\ artifact' = "code"
    /\ pathToFile' = CodePathToFile(fileType, vaultPath)
    /\ pc' = "mkdir"
    /\ UNCHANGED <<vaultPath, fileType, pathItem, heap, files, deferred, trace, retval,
                   tmplFriendly, extractions, result>>

\* lines 69-72: os.MkdirAll(parentDir)
MkdirAll ==
    /\ pc = "mkdir"
    /\ \E ok \in BOOLEAN :
          IF ok THEN pc' = "create" /\ retval' = retval
                ELSE pc' = "unwind" /\ retval' = "mkdir error"
    /\ UNCHANGED <<vaultPath, fileType, pathItem, heap, artifact, pathToFile, files,
                   deferred, trace, tmplFriendly, extractions, result>>

\* lines 73-87: os.Create(pathToFile), then the two defers and the buffered writer
Create ==
    /\ pc = "create"
    /\ \E ok \in BOOLEAN :
          IF ok
          THEN /\ files' = [f \in DOMAIN files \cup {pathToFile} |-> 
                              IF f = pathToFile THEN EmptyFile ELSE files[f]]
               /\ deferred' = PushDefer(PushDefer(<<>>, "close"), "flush")
               /\ trace' = <<"create">>
               /\ pc' = "parse"
               /\ retval' = retval
          ELSE /\ pc' = "unwind"
               /\ retval' = "create error"
               /\ UNCHANGED <<files, deferred, trace>>
    /\ UNCHANGED <<vaultPath, fileType, pathItem, heap, artifact, pathToFile,
                   tmplFriendly, extractions, result>>

\* lines 88 and 97-100: template.New(...).Parse(templates[fileType])
ParseTemplate ==
    /\ pc = "parse"
    /\ \E ok \in BOOLEAN :
          IF ok THEN pc' = "extract" /\ retval' = retval
                ELSE pc' = "unwind" /\ retval' = "template error"
    /\ UNCHANGED <<vaultPath, fileType, pathItem, heap, artifact, pathToFile, files,
                   deferred, trace, tmplFriendly, extractions, result>>

\* lines 101, 128-141: toTemplateFriendly up to and including
\* appendPostParamsToTopLevel(pathItem)
Extract ==
    /\ pc = "extract"
    /\ \E ord \in MapOrders(pathItem) :
          LET after == appendPostParamsToTopLevel(pathItem, heap, ord)
          IN  pathItem' = after.pathItem /\ heap' = after.heap
    /\ extractions' = extractions + 1
    /\ pc' = "validate"
    /\ UNCHANGED <<vaultPath, fileType, artifact, pathToFile, files, deferred, trace,
                   retval, tmplFriendly, result>>

\* lines 143-165 and 102-104: the validation loop, the sort and the context
Validate ==
    /\ pc = "validate"
    /\ LET offender == FirstOffender(heap, pathItem.Parameters)
           sorted == [pathItem EXCEPT !.Parameters = SortByName(@)]
       IN  IF offender = 0
           THEN /\ pathItem' = sorted
                /\ tmplFriendly' = <<TemplateFriendly(vaultPath, ParentDir(pathToFile), sorted)>>
                /\ pc' = "execute"
                /\ retval' = retval
           ELSE /\ retval' = IF pathItem.Parameters[offender].Schema = NIL
                             THEN "panic: nil pointer dereference"
                             ELSE ErrUnsupported
                /\ pc' = "unwind"
                /\ UNCHANGED <<pathItem, tmplFriendly>>
    /\ UNCHANGED <<vaultPath, fileType, heap, artifact, pathToFile, files, deferred,
                   trace, extractions, result>>

\* line 105: tmpl.Execute(writer, tmplFriendly) into the buffered writer
Execute ==
    /\ pc = "execute"
    /\ \E ok \in BOOLEAN :
          /\ trace' = Append(trace, IF ok THEN "execute" ELSE "execute failed")
          /\ retval' = IF ok THEN "nil" ELSE "execute error"
    /\ pc' = "unwind"
    /\ UNCHANGED <<vaultPath, fileType, pathItem, heap, artifact, pathToFile, files,
                   deferred, tmplFriendly, extractions, result>>

\* lines 77-87, run when generateFile returns or panics: the next deferred
\* call, Flush or Close; a failure goes to logger.Error
RunDeferred ==
    /\ pc = "unwind"
    /\ deferred # <<>>
    /\ \E ok \in BOOLEAN :
          /\ trace' = trace \o <<Head(deferred)>> \o (IF ok THEN <<>> ELSE <<"logger.Error">>)
          /\ retval' = ReturnAfterDeferred(retval, ok)
          /\ files' = IF ok /\ Head(deferred) = "flush"
                      THEN [files EXCEPT ![pathToFile] = Flushed(trace)]
                      ELSE files
    /\ deferred' = Tail(deferred)
    /\ UNCHANGED <<vaultPath, fileType, pathItem, heap, pc, artifact, pathToFile,
                   tmplFriendly, extractions, result>>

\* lines 45-48 and 63-65: generateCode has returned; GenerateFiles returns its
\* error or enters generateDoc, which enters generateFile
ReturnFromCode ==
    /\ pc = "unwind"
    /\ deferred = <<>>
    /\ artifact = "code"
    /\ IF retval = "nil"
       THEN /\ artifact' = "doc"
            /\ pathToFile' = DocPathToFile(fileType, vaultPath)
            /\ pc' = "mkdir"
            /\ trace' = <<>>
            /\ retval' = "none"
            /\ tmplFriendly' = <<>>
            /\ result' = result
       ELSE /\ result' = retval
            /\ pc' = "done"
            /\ UNCHANGED <<artifact, pathToFile, trace, retval, tmplFriendly>>
    /\ UNCHANGED <<vaultPath, fileType, pathItem, heap, files, deferred, extractions>>

\* lines 48-51: generateDoc has returned; GenerateFiles returns its error or nil
ReturnFromDoc ==
    /\ pc = "unwind"
    /\ deferred = <<>>
    /\ artifact = "doc"
    /\ result' = retval
    /\ pc' = "done"
    /\ UNCHANGED <<vaultPath, fileType, pathItem, heap, artifact, pathToFile, files,
                   deferred, trace, retval, tmplFriendly, extractions>>

Next ==
    \/ StartCode
    \/ MkdirAll
    \/ Create
    \/ ParseTemplate
    \/ Extract
    \/ Validate
    \/ Execute
    \/ RunDeferred
    \/ ReturnFromCode
    \/ ReturnFromDoc

Spec == Init /\ [][Next]_vars

SpecPaths == InitPaths /\ [][Next]_vars

----------------------------------------------------------------------------
(* Properties. *)

Parameters == pathItem.Parameters

HasEvent(tr, e) == \E i \in 1..Len(tr) : tr[i] = e

\* the names declared as properties of the POST request body
BodyNames(item) ==
    IF item.Post.IsNil \/ item.Post.RequestBodyIsNil \/ item.Post.ContentIsNil THEN {}
    ELSE UNION {DOMAIN item.Post.Content[m].Properties :
                  m \in {x \in DOMAIN item.Post.Content :
                           ~item.Post.Content[x].SchemaIsNil
                           /\ ~item.Post.Content[x].PropertiesIsNil}}

\* the validation loop has run in the current generateFile
Validated ==
    /\ pc \in {"execute", "unwind"}
    /\ retval \notin {"mkdir error", "create error", "template error"}

\* C1: when generateFile fails with the unsupported-type failure, the
\* invocation has created no output file.
C1_NoFileOnUnsupported ==
    retval = ErrUnsupported => pathToFile \notin DOMAIN files

\* C2: once appendPostParamsToTopLevel has run, every top-level parameter has
\* a schema and display attributes.
C2_ParametersNormalized ==
    extractions >= 1 =>
        \A i \in 1..Len(Parameters) :
            /\ Parameters[i].Schema # NIL
            /\ heap[Parameters[i].Schema].DisplayAttrs # "nil"

\* C3: extraction is idempotent.  Whatever a run of appendPostParamsToTopLevel
\* leaves, the names are pairwise distinct and a further run, in any order of
\* the maps, changes neither the parameter list nor a schema; the run
\* generateDoc makes after generateCode changes nothing.
C3_ExtractionIdempotent ==
    [][pc = "extract" =>
          /\ \A i, j \in 1..Len(pathItem'.Parameters) :
                i # j => pathItem'.Parameters[i].Name # pathItem'.Parameters[j].Name
          /\ \A ord \in MapOrders(pathItem') :
                appendPostParamsToTopLevel(pathItem', heap', ord)
                    = [pathItem |-> pathItem', heap |-> heap']
          /\ extractions >= 1 => (pathItem' = pathItem /\ heap' = heap)]_vars

\* generateDoc has run the extraction again on a descriptor with merged parameters
C3_SecondExtraction ==
    /\ extractions = 2
    /\ pc = "validate"
    /\ \E i \in 1..Len(Parameters) : Parameters[i].In = "post"

\* the schema says the same: type, element type, description and display
\* attributes, absent display attributes saying what empty ones say
SameMetadata(before, after) ==
    /\ after.Type = before.Type
    /\ after.Items = before.Items
    /\ after.Description = before.Description
    /\ after.DisplayAttrs = IF before.DisplayAttrs = "nil" THEN "{}" ELSE before.DisplayAttrs

\* C4: name precedence.  A top-level parameter whose name is also a property
\* of the POST body stays where it is, alone of its name, with its name,
\* description, source location and schema reference as they were, and the
\* schema keeps its type, description and display attributes (absent display
\* attributes having become empty ones).
C4_TopLevelPrecedence ==
    [][pc = "extract" =>
          \A i \in 1..Len(Parameters) :
              Parameters[i].Name \in BodyNames(pathItem) =>
                  /\ \A j \in 1..Len(pathItem'.Parameters) :
                        pathItem'.Parameters[j].Name = Parameters[i].Name => j = i
                  /\ pathItem'.Parameters[i] = Parameters[i]
                  /\ Parameters[i].Schema # NIL =>
                        SameMetadata(heap[Parameters[i].Schema], heap'[Parameters[i].Schema])]_vars

\* the extraction has met a name declared at the top level and in the body
C4_NameInBoth ==
    /\ extractions >= 1
    /\ \E i \in 1..Len(Parameters) :
          /\ Parameters[i].In = "path"
          /\ Parameters[i].Name \in BodyNames(pathItem)
          /\ Parameters[i].Schema # NIL
          /\ heap[Parameters[i].Schema].DisplayAttrs = "{sensitive}"

NamesOf(params) == [i \in 1..Len(params) |-> params[i].Name]

StrictlyAscending(params) ==
    \A i \in 1..(Len(params) - 1) : StrLess(params[i].Name, params[i+1].Name)

Rearrangements(params) ==
    {[i \in 1..Len(params) |-> params[p[i]]] : p \in Orders(1..Len(params))}

\* C5: the Parameters of the rendering context are the merged parameters in
\* strictly ascending order of name, whatever the order of the merged list,
\* and their names come in the same order whatever the order the maps were
\* ranged over.
C5_SortedParameters ==
    [][/\ pc = "extract" =>
             \A ord \in MapOrders(pathItem) :
                 NamesOf(SortByName(appendPostParamsToTopLevel(pathItem, heap, ord).pathItem.Parameters))
                     = NamesOf(SortByName(pathItem'.Parameters))
       /\ pc = "validate" /\ pc' = "execute" =>
             LET out == tmplFriendly'[1].Parameters
             IN  /\ StrictlyAscending(out)
                 /\ out \in Rearrangements(Parameters)
                 /\ \A p \in Rearrangements(Parameters) : SortByName(p) = out]_vars

\* the sort has moved a merged body parameter in front of a top-level one
C5_SortReordered ==
    /\ tmplFriendly # <<>>
    /\ \E i, j \in 1..Len(tmplFriendly[1].Parameters) :
          /\ i < j
          /\ tmplFriendly[1].Parameters[i].In = "post"
          /\ tmplFriendly[1].Parameters[j].In = "path"

\* the type tag of a schema, an array being tagged with what it holds
TypeTag(schema) ==
    IF schema.Type = "array"
    THEN (IF schema.Items = "string" THEN "array-of-string" ELSE "array-of-other")
    ELSE schema.Type

SupportedTags == {"array-of-string", "boolean", "integer", "string"}

\* C6: toTemplateFriendly fails with ErrUnsupported, and returns no context,
\* exactly when a parameter of the merged list has a type tag outside
\* {array-of-string, boolean, integer, string} (descriptors whose parameters
\* all have a schema).
C6_RejectsIffUnsupported ==
    (Validated /\ \A i \in 1..Len(Parameters) : Parameters[i].Schema # NIL) =>
        ((retval = ErrUnsupported /\ tmplFriendly = <<>>)
            <=> \E i \in 1..Len(Parameters) :
                   TypeTag(heap[Parameters[i].Schema]) \notin SupportedTags)

IsRelease(e) == e \in {"flush", "close"}
Releases(tr) == SelectSeq(tr, IsRelease)

\* C7: once the output file is created, generateFile leaves, on every path,
\* after one Flush and then one Close, and no Flush or Close, failing or not,
\* changes the value it returns.
C7_FlushThenClose ==
    [][/\ (pc = "unwind" /\ deferred = <<>> /\ HasEvent(trace, "create")) =>
             Releases(trace) = <<"flush", "close">>
       /\ (pc = "unwind" /\ deferred # <<>>) =>
             /\ retval' = retval
             /\ Len(Releases(trace')) = Len(Releases(trace)) + 1
       /\ (pc \in {"parse", "extract", "validate", "execute"}) =>
             /\ HasEvent(trace, "create")
             /\ Releases(trace) = <<>>
             /\ Len(deferred) = 2]_vars

\* generateFile leaves with ErrUnsupported after a failed Flush and a failed Close
C7_ReleaseFailedOnErrorPath ==
    /\ pc = "unwind"
    /\ deferred = <<>>
    /\ retval = ErrUnsupported
    /\ trace = <<"create", "flush", "logger.Error", "close", "logger.Error">>

\* the last element of the file path without the three characters of its extension
FileName(file) ==
    LET slashes == {i \in 1..Len(file) : file[i] = "/"}
        start == IF slashes = {} THEN 0 ELSE CHOOSE i \in slashes : \A j \in slashes : j <= i
    IN  SubSeq(file, start + 1, Len(file) - 3)

NotBrace(c) == c \notin {"{", "}"}

ExpectedDocName(path) ==
    LET trimmed == IF Len(path) >= 1 /\ path[1] = "/" THEN SubSeq(path, 2, Len(path)) ELSE path
    IN  SelectSeq([i \in 1..Len(trimmed) |-> IF trimmed[i] = "/" THEN "-" ELSE trimmed[i]],
                  NotBrace)

Count(s, c) == Cardinality({i \in 1..Len(s) : s[i] = c})

\* C8: the doc file is named after the endpoint path without its leading
\* slash, with "-" for every other slash and without braces; the code file is
\* the endpoint path, slashes kept and braces removed, under the
\* generated-code directory.
C8_PathMapping ==
    /\ artifact = "doc" =>
          /\ FileName(pathToFile) = ExpectedDocName(vaultPath)
          /\ \A i \in 1..Len(FileName(pathToFile)) :
                FileName(pathToFile)[i] \notin {"/", "{", "}"}
          /\ vaultPath = TransformTransformationName =>
                FileName(pathToFile) =
                    <<"t","r","a","n","s","f","o","r","m","-",
                      "t","r","a","n","s","f","o","r","m","a","t","i","o","n","-","n","a","m","e">>
    /\ artifact = "code" =>
          /\ pathToFile = pathToHomeDir \o GeneratedDir \o FileTypeString(fileType)
                            \o SelectSeq(vaultPath, NotBrace) \o <<".","g","o">>
          /\ Count(pathToFile, "{") = 0
          /\ Count(pathToFile, "}") = 0

\* the doc file of /transform/transformation/{name} has been created
C8_DocOfTransformation ==
    /\ artifact = "doc"
    /\ vaultPath = TransformTransformationName
    /\ pathToFile \in DOMAIN files

IsSeedChar(c) == c \notin {"{", "}", "_"}

\* the last field of the path without braces and underscores
Seed(path) ==
    LET slashes == {i \in 1..Len(path) : path[i] = "/"}
        start == IF slashes = {} THEN 0 ELSE CHOOSE i \in slashes : \A j \in slashes : j <= i
    IN  SelectSeq(SubSeq(path, start + 1, Len(path)), IsSeedChar)

\* the first character in upper case
Capitalized(s) == [i \in 1..Len(s) |-> IF i = 1 THEN ToUpperChar(s[i]) ELSE s[i]]

\* the first character, and every character after one that is neither a
\* letter nor a digit, in upper case
WordsCapitalized(s) ==
    [i \in 1..Len(s) |->
        IF i = 1 THEN ToUpperChar(s[i])
        ELSE IF IsLower(s[i-1]) \/ IsUpper(s[i-1]) \/ IsDigit(s[i-1]) THEN s[i]
        ELSE ToUpperChar(s[i])]

NamingOf(context, path, exported) ==
    /\ context.PrivateFuncPrefix = ToLower(Seed(path))
    /\ context.ExportedFuncPrefix = exported
    /\ \A i \in 1..Len(context.PrivateFuncPrefix) :
          context.PrivateFuncPrefix[i] \notin {"{", "}", "_"}
    /\ \A i \in 1..Len(context.ExportedFuncPrefix) :
          context.ExportedFuncPrefix[i] \notin {"{", "}", "_"}
    /\ path = TransformName =>
          /\ context.ExportedFuncPrefix = <<"N","a","m","e">>
          /\ context.PrivateFuncPrefix = <<"n","a","m","e">>

\* C9 as stated: the private prefix is the seed in lower case and the exported
\* prefix is that with its first character capitalized.
C9_ExportedCapitalized ==
    tmplFriendly # <<>> =>
        NamingOf(tmplFriendly[1], vaultPath, Capitalized(ToLower(Seed(vaultPath))))

\* C9 as amended: the private prefix is the seed in lower case and the
\* exported prefix is that in title case: its first character, and every
\* character after one that is neither a letter nor a digit, in upper case.
C9_ExportedTitleCased ==
    tmplFriendly # <<>> =>
        NamingOf(tmplFriendly[1], vaultPath, WordsCapitalized(ToLower(Seed(vaultPath))))

\* the context of /a-B_ has been built: a seed of two words
C9_TwoWordSeed ==
    /\ tmplFriendly # <<>>
    /\ vaultPath = <<"/","a","-","B","_">>
    /\ tmplFriendly[1].ExportedFuncPrefix = <<"A","-","B">>
    /\ tmplFriendly[1].PrivateFuncPrefix = <<"a","-","b">>

\* what the merge says of the name: the parameters of that name, each with
\* its description, source location and schema
ParameterOf(merged, name) ==
    {[Description |-> merged.pathItem.Parameters[i].Description,
      In |-> merged.pathItem.Parameters[i].In,
      Schema |-> IF merged.pathItem.Parameters[i].Schema = NIL THEN EmptySchema
                 ELSE merged.heap[merged.pathItem.Parameters[i].Schema]] :
        i \in {k \in 1..Len(merged.pathItem.Parameters) :
                 merged.pathItem.Parameters[k].Name = name}}

\* C10: the parameter appendPostParamsToTopLevel adds for a name, and with it
\* the outcome of the validation, is the same in every order the media types
\* of the request body are ranged over.
C10_MediaOrderIrrelevant ==
    pc = "extract" =>
        \A o1, o2 \in MapOrders(pathItem) :
            LET m1 == appendPostParamsToTopLevel(pathItem, heap, o1)
                m2 == appendPostParamsToTopLevel(pathItem, heap, o2)
            IN  /\ \A name \in Names : ParameterOf(m1, name) = ParameterOf(m2, name)
                /\ (FirstOffender(m1.heap, m1.pathItem.Parameters) = 0)
                      <=> (FirstOffender(m2.heap, m2.pathItem.Parameters) = 0)

====
